---- MODULE Spec2Model ----
(***************************************************************************)
(* A model of m3u_weaver.py: the MusicPlaylistManager session.             *)
(*                                                                         *)
(* Text (paths, keywords, file contents, keys) is a sequence of            *)
(* one-character strings, so that str.replace, `in`, str.lower, strip,     *)
(* readlines and sort are computed character by character.  The bytes      *)
(* 0x1b, \r and \n are written "ESC", "CR" and "LF".                       *)
(*                                                                         *)
(* A state is taken where the program waits for input: before run(), in    *)
(* getch inside handle_input's loop (after display_page), and after run()  *)
(* returned.  One handle_input step is one iteration of the loop: the      *)
(* bytes getch reads, the handler of the key with every prompt it answers  *)
(* and every file it writes.  The user presses keys only while getch       *)
(* blocks; the terminal may hang up, after which reads return short.       *)
(* The session is started with page_size >= 1; Python indices are 0-based, *)
(* sequences here 1-based, so music_files[i] is written music_files[i+1].  *)
(***************************************************************************)
EXTENDS Integers, Sequences, FiniteSets, TLC

\* ------------------------------------------------------------------ bounds

\* Largest number of files the scanned directory tree holds.
MaxFiles == 3
\* Largest page size the session is started with (page_size >= 1).
MaxPageSize == 2

\* ------------------------------------------------------------------ text

ESC == "ESC"
CR == "CR"
LF == "LF"

Min(a, b) == IF a < b THEN a ELSE b
Max(a, b) == IF a > b THEN a ELSE b

\* s[i..] (1-based), the Python slice s[i-1:]
From(s, i) == SubSeq(s, i, Len(s))

\* str.startswith
StartsWith(s, p) == Len(p) <= Len(s) /\ SubSeq(s, 1, Len(p)) = p

\* str.endswith
EndsWith(s, p) == Len(p) <= Len(s) /\ SubSeq(s, Len(s) - Len(p) + 1, Len(s)) = p

\* `p in s` for two strings
Contains(s, p) == \E i \in 1..(Len(s) - Len(p) + 1) : SubSeq(s, i, i + Len(p) - 1) = p

\* str.lower, on the letters the model uses
LowerChar(c) ==
    CASE c = "B" -> "b"
      [] c = "M" -> "m"
      [] c = "P" -> "p"
      [] c = "Y" -> "y"
      [] OTHER -> c

Lower(s) == [i \in 1..Len(s) |-> LowerChar(s[i])]

\* Characters str.strip removes
IsSpace(c) == c \in {" ", LF, CR}

RECURSIVE LStrip(_)
LStrip(s) == IF s # <<>> /\ IsSpace(s[1]) THEN LStrip(Tail(s)) ELSE s

RECURSIVE RStrip(_)
RStrip(s) ==
    IF s # <<>> /\ IsSpace(s[Len(s)]) THEN RStrip(SubSeq(s, 1, Len(s) - 1)) ELSE s

\* str.strip
Strip(s) == RStrip(LStrip(s))

\* str.replace(old, new): left to right, non-overlapping
RECURSIVE Replace(_, _, _)
Replace(s, old, new) ==
    IF s = <<>> THEN <<>>
    ELSE IF StartsWith(s, old) THEN new \o Replace(From(s, Len(old) + 1), old, new)
    ELSE <<s[1]>> \o Replace(Tail(s), old, new)

\* The code point order of the characters the model uses
Ord(c) ==
    CASE c = LF -> 10
      [] c = CR -> 13
      [] c = ESC -> 27
      [] c = " " -> 32
      [] c = "#" -> 35
      [] c = "&" -> 38
      [] c = "." -> 46
      [] c = "/" -> 47
      [] c = "3" -> 51
      [] c = "5" -> 53
      [] c = "6" -> 54
      [] c = ";" -> 59
      [] c = "?" -> 63
      [] c = "A" -> 65
      [] c = "B" -> 66
      [] c = "C" -> 67
      [] c = "D" -> 68
      [] c = "E" -> 69
      [] c = "M" -> 77
      [] c = "P" -> 80
      [] c = "T" -> 84
      [] c = "U" -> 85
      [] c = "X" -> 88
      [] c = "Y" -> 89
      [] c = "[" -> 91
      [] c = "a" -> 97
      [] c = "b" -> 98
      [] c = "c" -> 99
      [] c = "d" -> 100
      [] c = "i" -> 105
      [] c = "l" -> 108
      [] c = "m" -> 109
      [] c = "n" -> 110
      [] c = "p" -> 112
      [] c = "q" -> 113
      [] c = "s" -> 115
      [] c = "t" -> 116
      [] c = "u" -> 117
      [] c = "x" -> 120
      [] c = "y" -> 121
      [] c = "z" -> 122
      [] c = "~" -> 126

\* s < t for two strings (Python's str comparison)
RECURSIVE StrLess(_, _)
StrLess(s, t) ==
    IF t = <<>> THEN FALSE
    ELSE IF s = <<>> THEN TRUE
    ELSE IF s[1] = t[1] THEN StrLess(Tail(s), Tail(t))
    ELSE Ord(s[1]) < Ord(t[1])

\* list.sort() of a collection of distinct strings
RECURSIVE SortStrings(_)
SortStrings(S) ==
    IF S = {} THEN <<>>
    ELSE LET m == CHOOSE x \in S : \A y \in S \ {x} : StrLess(x, y)
         IN  <<m>> \o SortStrings(S \ {m})

\* sorted() of a set of integers
RECURSIVE Sorted(_)
Sorted(S) ==
    IF S = {} THEN <<>>
    ELSE LET m == CHOOSE x \in S : \A y \in S : x <= y
         IN  <<m>> \o Sorted(S \ {m})

\* s.split(sep) for a one-character separator
RECURSIVE Split(_, _)
Split(s, sep) ==
    IF \A i \in 1..Len(s) : s[i] # sep THEN <<s>>
    ELSE LET k == CHOOSE i \in 1..Len(s) : s[i] = sep /\ \A j \in 1..(i - 1) : s[j] # sep
         IN  <<SubSeq(s, 1, k - 1)>> \o Split(From(s, k + 1), sep)

\* sep.join(parts)
RECURSIVE Join(_, _)
Join(parts, sep) ==
    IF parts = <<>> THEN <<>>
    ELSE IF Len(parts) = 1 THEN parts[1]
    ELSE parts[1] \o <<sep>> \o Join(Tail(parts), sep)

\* ------------------------------------------------------------------ pathlib

\* A text literal, written character by character
S_m3u == <<".", "m", "3", "u">>
S_nbsp == <<"&", "n", "b", "s", "p", ";">>
S_amp == <<"&", "a", "m", "p", ";">>
S_header == <<"#", "E", "X", "T", "M", "3", "U">>

\* The components of a POSIX path that PurePosixPath keeps
RECURSIVE KeptParts(_)
KeptParts(parts) ==
    IF parts = <<>> THEN <<>>
    ELSE (IF parts[1] \in {<<>>, <<".">>} THEN <<>> ELSE <<parts[1]>>)
         \o KeptParts(Tail(parts))

\* str(Path(p).as_posix()) on a POSIX system: repeated and trailing slashes and
\* "." components are dropped; a backslash is an ordinary character
AsPosix(p) ==
    LET kept == Join(KeptParts(Split(p, "/")), "/")
    IN  IF p # <<>> /\ p[1] = "/" THEN <<"/">> \o kept
        ELSE IF kept = <<>> THEN <<".">>
        ELSE kept

\* Path(p).name: the final path component
PathName(p) ==
    LET parts == KeptParts(Split(p, "/"))
    IN  IF parts = <<>> THEN <<>> ELSE parts[Len(parts)]

\* Path(p).suffix: the final component from its last dot on
PathSuffix(p) ==
    LET name == PathName(p)
        dots == {i \in 1..Len(name) : name[i] = "."}
    IN  IF dots = {} THEN <<>>
        ELSE LET i == CHOOSE d \in dots : \A e \in dots : e <= d
             IN  IF 1 < i /\ i < Len(name) THEN From(name, i) ELSE <<>>

\* str(p.relative_to(base)) for a file p below the directory base
RelativeTo(p, base) ==
    IF base = <<"/">> THEN Tail(p) ELSE From(p, Len(base) + 2)

\* ------------------------------------------------------------------ the environment

\* The parent of the music directory /M
MusicDirParent == <<"/">>

\* Files that may lie below the music directory
F_b == <<"/", "M", "/", "b", ".", "m", "p", "3">>
F_amp == <<"/", "M", "/", "c", "&", "a", "m", "p", ";", "d", ".", "m", "p", "3">>
F_caps == <<"/", "M", "/", "B", "&", "a", "m", "p", ";", "n", "b", "s", "p", ";", ".", "M", "P", "3">>
F_sub == <<"/", "M", "/", "s", "/", "b", "&", "n", "b", "s", "p", ";", ".", "m", "p", "3">>
F_txt == <<"/", "M", "/", "n", ".", "t", "x", "t">>
FilePool == {F_b, F_amp, F_caps, F_sub, F_txt}

\* The directory trees a session may be started on
Disks == {D \in SUBSET FilePool : Cardinality(D) <= MaxFiles}

\* Playlist files that may lie in the working directory
N_p == <<"p">> \o S_m3u
N_q == <<"q">> \o S_m3u
P_p == S_header \o <<LF, "M", "/", "b", ".", "m", "p", "3", LF,
                     "M", "/", "/", "c", "&", "d", ".", "m", "p", "3", LF>>
P_q == <<LF, "M", "/", "s", "/", "b", " ", ".", "m", "p", "3">>
NoFiles == [n \in {} |-> <<>>]
WorkDirs == {NoFiles, [n \in {N_p, N_q} |-> IF n = N_p THEN P_p ELSE P_q]}

\* What the user may type at the search prompt
Keywords == {<<>>, <<" ">>, <<"B">>, <<" ", "c">>, <<"z">>, <<"/">>}

\* What the user may type at the playlist-name prompt
PlaylistNames == {<<>>, <<"n">>, <<"p", "?">>}

\* What the user may type at the append confirmation
Confirmations == {<<"y">>, <<" ", "Y">>, <<"n">>, <<>>}

\* The physical keys and the bytes the terminal sends for each
Keys == {"space", "q", "s", "a", "slash", "esc", "enter", "other",
         "up", "down", "right", "left", "pgup", "pgdn"}

\* The keys the user may press while getch waits for the rest of an ESC sequence
FollowKeys == {"space", "up"}

Bytes(k) ==
    CASE k = "space" -> <<" ">>
      [] k = "q" -> <<"q">>
      [] k = "s" -> <<"s">>
      [] k = "a" -> <<"a">>
      [] k = "slash" -> <<"/">>
      [] k = "esc" -> <<ESC>>
      [] k = "enter" -> <<CR>>
      [] k = "other" -> <<"x">>
      [] k = "up" -> <<ESC, "[", "A">>
      [] k = "down" -> <<ESC, "[", "B">>
      [] k = "right" -> <<ESC, "[", "C">>
      [] k = "left" -> <<ESC, "[", "D">>
      [] k = "pgup" -> <<ESC, "[", "5", "~">>
      [] k = "pgdn" -> <<ESC, "[", "6", "~">>

\* ------------------------------------------------------------------ state

VARIABLES
    dir_exists,            \* whether music_dir exists
    disk,                  \* the files below music_dir
    fs,                    \* the files of the working directory: name -> content
    fs0,                   \* history: the working directory when the session started
    stdin,                 \* bytes the terminal has sent and getch has not read
    eof,                   \* stdin has reached end of file (the terminal hung up)
    pc,                    \* "start", "loop" (handle_input waits in getch), "exit"
    music_files,           \* self.music_files
    selected_files,        \* self.selected_files (0-based catalog indices)
    current_index,         \* self.current_index
    page_size,             \* self.page_size
    current_page,          \* self.current_page
    screen_initialized,    \* self.screen_initialized
    existing_playlist,     \* self.existing_playlist
    append_mode,           \* self.append_mode
    target_playlist_file,  \* self.target_playlist_file
    search_mode,           \* self.search_mode
    search_keyword,        \* self.search_keyword
    filtered_files,        \* self.filtered_files (0-based catalog indices)
    report,                \* what the last handler told the user
    event,                 \* history: the key event handle_input dispatched last
    toggled,               \* history: indices a select keypress was applied to an odd number of times
    pressed,               \* history: the keys the user pressed during the last getch
    before                 \* history: the mode, cursor and page the last key event found

env == <<dir_exists, disk, fs, fs0, stdin, eof>>
view == <<current_index, current_page, search_mode, search_keyword, filtered_files>>
playlist == <<existing_playlist, append_mode, target_playlist_file>>
vars == <<dir_exists, disk, fs, fs0, stdin, eof, pc, music_files, selected_files,
          current_index, page_size, current_page, screen_initialized,
          existing_playlist, append_mode, target_playlist_file, search_mode,
          search_keyword, filtered_files, report, event, toggled, pressed, before>>

None == <<"None">>
NoReport ==
    [outcome |-> "none", added |-> 0, skipped |-> 0, file |-> None,
     line |-> None, from_search |-> FALSE]

\* MusicPlaylistManager.__init__, before run() is called
Init ==
    /\ dir_exists \in BOOLEAN
    /\ disk \in Disks
    /\ (~dir_exists => disk = {})
    /\ fs \in WorkDirs
    /\ fs0 = fs
    /\ stdin = <<>>
    /\ eof = FALSE
    /\ pc = "start"
    /\ music_files = <<>>
    /\ selected_files = {}
    /\ current_index = 0
    /\ page_size \in 1..MaxPageSize
    /\ current_page = 0
    /\ screen_initialized = FALSE
    /\ existing_playlist = {}
    /\ append_mode = FALSE
    /\ target_playlist_file = None
    /\ search_mode = FALSE
    /\ search_keyword = <<>>
    /\ filtered_files = <<>>
    /\ report = NoReport
    /\ event = "none"
    /\ toggled = {}
    /\ pressed = <<>>
    /\ before = [search_mode |-> FALSE, current_index |-> 0, current_page |-> 0]

\* ------------------------------------------------------------------ scan, getch

music_extensions ==
    { <<".", "m", "p", "3">>, <<".", "w", "a", "v">>, <<".", "f", "l", "a", "c">>,
      <<".", "a", "a", "c">>, <<".", "m", "4", "a">>, <<".", "o", "g", "g">>,
      <<".", "w", "m", "a">> }

\* scan_music_files: the sorted list of the music files, relative to the parent
\* of music_dir; empty when music_dir does not exist
scan_music_files ==
    IF ~dir_exists THEN <<>>
    ELSE SortStrings({ RelativeTo(f, MusicDirParent) :
                       f \in {g \in disk : Lower(PathSuffix(g)) \in music_extensions} })

\* sys.stdin.read(n) at a stream: the text read and the rest of the stream
Read(stream, n) ==
    [text |-> SubSeq(stream, 1, Min(n, Len(stream))),
     rest |-> From(stream, Min(n, Len(stream)) + 1)]

\* getch: one character, and two more when the first is ESC
getch(stream) ==
    LET ch == Read(stream, 1)
    IN  IF ch.text = <<ESC>>
        THEN [key |-> ch.text \o Read(ch.rest, 2).text, rest |-> Read(ch.rest, 2).rest]
        ELSE [key |-> ch.text, rest |-> ch.rest]

\* getch blocks at this stream until the terminal sends more (or hangs up)
Blocks(stream) ==
    \/ stream = <<>>
    \/ stream[1] = ESC /\ Len(stream) < 3

\* What getch may find on stdin: the user presses keys while getch blocks, or
\* the terminal hangs up; keys are the keys pressed since getch was called
RECURSIVE Streams(_, _)
Streams(stream, keys) ==
    IF ~Blocks(stream) THEN {[stream |-> stream, hup |-> FALSE, pressed |-> keys]}
    ELSE {[stream |-> stream, hup |-> TRUE, pressed |-> keys]}
         \cup UNION { Streams(stream \o Bytes(k), Append(keys, k)) :
                      k \in IF stream = <<>> THEN Keys ELSE FollowKeys }

\* ------------------------------------------------------------------ the view

\* get_current_display_files
get_current_display_files ==
    IF search_mode THEN filtered_files
    ELSE [i \in 1..Len(music_files) |-> i - 1]

\* display_page's page count
display_total_pages ==
    LET total_items == IF search_mode THEN Len(filtered_files) ELSE Len(music_files)
    IN  IF total_items > 0 THEN (total_items + page_size - 1) \div page_size ELSE 1

\* handle_input's page count rounded down
handler_total_pages_floor ==
    IF search_mode THEN Len(filtered_files) \div page_size
    ELSE Len(music_files) \div page_size

\* handle_input's page count (cursor-down, Enter, Page Down, right arrow)
handler_total_pages ==
    IF search_mode THEN (Len(filtered_files) + page_size - 1) \div page_size
    ELSE (Len(music_files) + page_size - 1) \div page_size

\* The search loop that stops at the first track it finds
RECURSIVE Matches_first_only(_, _)
Matches_first_only(keyword, i) ==
    IF i >= Len(music_files) THEN <<>>
    ELSE IF Contains(Lower(PathName(music_files[i + 1])), keyword) THEN <<i>>
    ELSE Matches_first_only(keyword, i + 1)

\* The indices search_music finds for a stripped, lower-cased keyword
RECURSIVE Matches(_, _)
Matches(keyword, i) ==
    IF i >= Len(music_files) THEN <<>>
    ELSE (IF Contains(Lower(PathName(music_files[i + 1])), keyword) THEN <<i>> ELSE <<>>)
         \o Matches(keyword, i + 1)

\* The selection and the view, the fields the key handlers assign, as a record
Self ==
    [selected_files |-> selected_files, search_mode |-> search_mode,
     search_keyword |-> search_keyword, filtered_files |-> filtered_files,
     current_index |-> current_index, current_page |-> current_page]

\* clear_search that empties the filter and leaves the mode as it was
clear_search_keeping_mode ==
    [Self EXCEPT !.search_keyword = <<>>, !.filtered_files = <<>>,
                 !.current_index = 0, !.current_page = 0]

\* clear_search that leaves the cursor and the page where they were
clear_search_keeping_cursor ==
    [Self EXCEPT !.search_mode = FALSE, !.search_keyword = <<>>, !.filtered_files = <<>>]

\* clear_search that also forgets the selection
clear_search_and_selection ==
    [Self EXCEPT !.selected_files = {}, !.search_mode = FALSE, !.search_keyword = <<>>,
                 !.filtered_files = <<>>, !.current_index = 0, !.current_page = 0]

\* clear_search: the fields it leaves
clear_search ==
    [Self EXCEPT !.search_mode = FALSE, !.search_keyword = <<>>, !.filtered_files = <<>>,
                 !.current_index = 0, !.current_page = 0]

\* search_music that keeps the cursor and the page where they were
search_music_keeping_cursor(keyword) ==
    IF Strip(keyword) = <<>>
    THEN [Self EXCEPT !.search_mode = FALSE, !.search_keyword = <<>>,
                      !.filtered_files = <<>>]
    ELSE [Self EXCEPT !.search_mode = TRUE, !.search_keyword = Lower(Strip(keyword)),
                      !.filtered_files = Matches(Lower(Strip(keyword)), 0)]

\* search_music(keyword): the fields it leaves
search_music(keyword) ==
    IF Strip(keyword) = <<>>
    THEN [Self EXCEPT !.search_mode = FALSE, !.search_keyword = <<>>,
                      !.filtered_files = <<>>, !.current_index = 0, !.current_page = 0]
    ELSE [Self EXCEPT !.search_mode = TRUE, !.search_keyword = Lower(Strip(keyword)),
                      !.filtered_files = Matches(Lower(Strip(keyword)), 0),
                      !.current_index = 0, !.current_page = 0]

SetSelf(v) ==
    /\ selected_files' = v.selected_files
    /\ search_mode' = v.search_mode
    /\ search_keyword' = v.search_keyword
    /\ filtered_files' = v.filtered_files
    /\ current_index' = v.current_index
    /\ current_page' = v.current_page

\* search_input without the clear_search after a search that found nothing
search_input_keeping_empty(line) ==
    LET keyword == Strip(line)
    IN  IF keyword # <<>> THEN search_music(keyword) ELSE Self

\* search_input with the line the user types: the fields it leaves
search_input(line) ==
    LET keyword == Strip(line)
    IN  IF keyword # <<>>
        THEN IF Len(search_music(keyword).filtered_files) > 0
             THEN search_music(keyword)
             ELSE clear_search
        ELSE Self

\* search_input with the line the user types: what it prints (with, as
\* history, the line and the mode the prompt was opened in)
search_input_report(line) ==
    LET keyword == Strip(line)
        prompt == [NoReport EXCEPT !.line = line, !.from_search = search_mode]
    IN  IF keyword # <<>>
        THEN IF Len(search_music(keyword).filtered_files) > 0
             THEN [prompt EXCEPT !.outcome = "Found"]
             ELSE [prompt EXCEPT !.outcome = "NoMatch"]
        ELSE [prompt EXCEPT !.outcome = "EmptyKeyword"]

\* ------------------------------------------------------------------ playlists

\* The lines of a text file (readlines, without the line ends)
FileLines(content) == Split(content, LF)

\* The paths load_existing_playlist puts into existing_playlist
RECURSIVE LoadedPaths(_)
LoadedPaths(lines) ==
    IF lines = <<>> THEN {}
    ELSE LET line == Strip(lines[1])
         IN  (IF line # <<>> /\ ~StartsWith(line, <<"#">>) THEN {AsPosix(line)} ELSE {})
             \cup LoadedPaths(Tail(lines))

\* get_available_playlists: the *.m3u files of the working directory
get_available_playlists == SortStrings({n \in DOMAIN fs : EndsWith(n, S_m3u)})

\* What may happen when load_existing_playlist opens the file
LoadOutcomes == {"ok", "missing", "unreadable"}

\* load_existing_playlist(playlist_file), with what the file system does
load_existing_playlist(playlist_file, outcome) ==
    IF outcome = "missing"
    THEN /\ UNCHANGED playlist
         /\ report' = [NoReport EXCEPT !.outcome = "LoadFailed", !.file = playlist_file]
    ELSE IF outcome = "unreadable"
    THEN /\ existing_playlist' = {}
         /\ UNCHANGED <<append_mode, target_playlist_file>>
         /\ report' = [NoReport EXCEPT !.outcome = "LoadFailed", !.file = playlist_file]
    ELSE /\ existing_playlist' = LoadedPaths(FileLines(fs[playlist_file]))
         /\ target_playlist_file' = playlist_file
         /\ append_mode' = TRUE
         /\ report' = [NoReport EXCEPT !.outcome = "Loaded", !.file = playlist_file]

\* is_song_in_playlist
is_song_in_playlist(file_path) ==
    IF ~append_mode THEN FALSE ELSE AsPosix(file_path) \in existing_playlist

\* select_existing_playlist: the user cancels with 0 or picks a listed file
select_existing_playlist ==
    LET available_playlists == get_available_playlists
    IN  IF available_playlists = <<>>
        THEN /\ UNCHANGED playlist
             /\ report' = [NoReport EXCEPT !.outcome = "NoPlaylists"]
        ELSE \E choice \in 0..Len(available_playlists) :
                IF choice = 0
                THEN /\ UNCHANGED playlist
                     /\ report' = [NoReport EXCEPT !.outcome = "Cancelled"]
                ELSE \E outcome \in LoadOutcomes :
                        load_existing_playlist(available_playlists[choice], outcome)

\* ------------------------------------------------------------------ the frame

\* get_current_page_items: the paths and the catalog indices of the current page
get_current_page_items ==
    LET start_idx == current_page * page_size
    IN  IF search_mode
        THEN LET end_idx == Min(start_idx + page_size, Len(filtered_files))
                 page_indices == SubSeq(filtered_files, start_idx + 1, end_idx)
             IN  [page_items |-> [i \in 1..Len(page_indices) |-> music_files[page_indices[i] + 1]],
                  page_indices |-> page_indices]
        ELSE LET end_idx == Min(start_idx + page_size, Len(music_files))
             IN  [page_items |-> SubSeq(music_files, start_idx + 1, end_idx),
                  page_indices |-> [i \in 1..Max(0, end_idx - start_idx) |-> start_idx + i - 1]]

\* The status symbol of a row: "check" for a selected track, and in append
\* mode "ring" for a selected track of the playlist and "dot" for an
\* unselected one
checkbox(file_path, global_idx) ==
    LET is_selected == global_idx \in selected_files
        is_in_playlist == is_song_in_playlist(file_path)
    IN  IF append_mode
        THEN IF is_in_playlist /\ is_selected THEN "ring"
             ELSE IF is_in_playlist THEN "dot"
             ELSE IF is_selected THEN "check"
             ELSE "blank"
        ELSE IF is_selected THEN "check" ELSE "blank"

\* The file name a row shows, cut when it is longer than 68 characters
shown_name(file_path) ==
    LET file_name == PathName(file_path)
    IN  IF Len(file_name) > 68 THEN SubSeq(file_name, 1, 65) \o <<".", ".", ".">>
        ELSE file_name

\* display_page's rows with the cursor marker decided by the catalog index
\* in Search mode too
display_rows_by_catalog_index ==
    LET page == get_current_page_items
    IN  [r \in 1..Len(page.page_items) |->
            [cursor |-> page.page_indices[r] = current_index,
             checkbox |-> checkbox(page.page_items[r], page.page_indices[r]),
             file_name |-> shown_name(page.page_items[r]),
             global_idx |-> page.page_indices[r]]]

\* display_page: the item rows of the frame (row r is the loop's i = r - 1);
\* cursor tells whether the row carries the cursor marker
display_rows ==
    LET page == get_current_page_items
    IN  [r \in 1..Len(page.page_items) |->
            [cursor |-> IF search_mode
                        THEN current_page * page_size + (r - 1) = current_index
                        ELSE page.page_indices[r] = current_index,
             checkbox |-> checkbox(page.page_items[r], page.page_indices[r]),
             file_name |-> shown_name(page.page_items[r]),
             global_idx |-> page.page_indices[r]]]

\* ------------------------------------------------------------------ export

\* clean_path with the two replacements in the other order
clean_path_amp_first(file_path) ==
    Replace(Replace(file_path, S_amp, <<"&">>), S_nbsp, <<" ">>)

\* clean_path: the two HTML entities decoded
clean_path(file_path) == Replace(Replace(file_path, S_nbsp, <<" ">>), S_amp, <<"&">>)

\* The selected songs that are not in the playlist, in ascending index order
RECURSIVE NewSongs(_)
NewSongs(selected_indices) ==
    IF selected_indices = <<>> THEN <<>>
    ELSE (IF ~is_song_in_playlist(music_files[selected_indices[1] + 1])
          THEN <<music_files[selected_indices[1] + 1]>> ELSE <<>>)
         \o NewSongs(Tail(selected_indices))

\* The selected songs, in ascending index order
RECURSIVE SelectedSongs(_)
SelectedSongs(selected_indices) ==
    IF selected_indices = <<>> THEN <<>>
    ELSE <<music_files[selected_indices[1] + 1]>> \o SelectedSongs(Tail(selected_indices))

\* The text written for a list of songs: one cleaned path and a newline each
RECURSIVE SongText(_)
SongText(songs) ==
    IF songs = <<>> THEN <<>>
    ELSE clean_path(songs[1]) \o <<LF>> \o SongText(Tail(songs))

\* What the file system may do with an export of n writes: succeed, fail in
\* open, or fail after k < n writes reached the file
WriteOutcomes(n) ==
    {[failed |-> FALSE, opened |-> TRUE, written |-> n],
     [failed |-> TRUE, opened |-> FALSE, written |-> 0]}
    \cup {[failed |-> TRUE, opened |-> TRUE, written |-> k] : k \in 0..(n - 1)}

\* str.isalnum for one character
IsAlnum(c) ==
    c \in {"3", "4", "5", "6", "A", "B", "C", "D", "E", "M", "P", "T", "U", "X", "Y",
           "a", "b", "c", "d", "i", "l", "m", "n", "p", "q", "s", "t", "u", "x",
           "y", "z"}

\* The characters of the playlist name that save_playlist keeps
RECURSIVE KeptChars(_)
KeptChars(name) ==
    IF name = <<>> THEN <<>>
    ELSE (IF IsAlnum(name[1]) \/ name[1] \in {" ", "-", "_"} THEN <<name[1]>> ELSE <<>>)
         \o KeptChars(Tail(name))

\* The file save_playlist creates for the name the user types
playlist_file(line) ==
    LET playlist_name == IF Strip(line) = <<>>
                         THEN <<"p", "l", "a", "y", "l", "i", "s", "t">>
                         ELSE Strip(line)
    IN  Strip(KeptChars(playlist_name)) \o S_m3u

\* The content of a file of the working directory, empty when it does not exist
Content(name) == IF name \in DOMAIN fs THEN fs[name] ELSE <<>>

\* The working directory after name is written
WriteFile(name, content) ==
    [n \in DOMAIN fs \cup {name} |-> IF n = name THEN content ELSE fs[n]]

\* The append that asks for confirmation and opens the file even when no
\* selected song is new
save_append_without_check ==
    LET new_songs == NewSongs(Sorted(selected_files))
        counts == [NoReport EXCEPT !.added = Len(new_songs),
                                   !.skipped = Cardinality(selected_files) - Len(new_songs),
                                   !.file = target_playlist_file]
    IN  \E confirm \in Confirmations :
            IF Lower(Strip(confirm)) # <<"y">>
            THEN /\ report' = [counts EXCEPT !.outcome = "Declined"]
                 /\ fs' = fs
            ELSE /\ report' = [counts EXCEPT !.outcome = "Appended"]
                 /\ fs' = WriteFile(target_playlist_file,
                            Content(target_playlist_file) \o SongText(new_songs))

\* save_playlist in append mode
save_append ==
    LET selected_indices == Sorted(selected_files)
        new_songs == NewSongs(selected_indices)
        duplicate_count == Len(selected_indices) - Len(new_songs)
        counts == [NoReport EXCEPT !.added = Len(new_songs), !.skipped = duplicate_count,
                                   !.file = target_playlist_file]
    IN  IF new_songs = <<>>
        THEN /\ report' = [NoReport EXCEPT !.outcome = "NoNewTracks"]
             /\ fs' = fs
        ELSE \E confirm \in Confirmations :
                IF Lower(Strip(confirm)) # <<"y">>
                THEN /\ report' = [counts EXCEPT !.outcome = "Declined"]
                     /\ fs' = fs
                ELSE \E io \in WriteOutcomes(Len(new_songs)) :
                        /\ report' = [counts EXCEPT
                                        !.outcome = IF io.failed THEN "WriteError" ELSE "Appended"]
                        /\ fs' = IF io.opened
                                 THEN WriteFile(target_playlist_file,
                                        Content(target_playlist_file)
                                        \o SongText(SubSeq(new_songs, 1, io.written)))
                                 ELSE fs

\* save_playlist in create mode
save_create ==
    \E line \in PlaylistNames :
        LET selected_indices == Sorted(selected_files)
            songs == SelectedSongs(selected_indices)
        IN  \E io \in WriteOutcomes(1 + Len(songs)) :
                /\ report' = [NoReport EXCEPT
                                !.outcome = IF io.failed THEN "WriteError" ELSE "Created",
                                !.added = IF io.failed THEN 0 ELSE Len(selected_indices),
                                !.file = playlist_file(line)]
                /\ fs' = IF ~io.opened THEN fs
                         ELSE IF io.written = 0 THEN WriteFile(playlist_file(line), <<>>)
                         ELSE WriteFile(playlist_file(line),
                                S_header \o <<LF>> \o SongText(SubSeq(songs, 1, io.written - 1)))

\* save_playlist
save_playlist ==
    IF selected_files = {}
    THEN /\ report' = [NoReport EXCEPT !.outcome = "EmptySelection"]
         /\ fs' = fs
    ELSE IF append_mode THEN save_append
    ELSE save_create

\* ------------------------------------------------------------------ handle_input

\* The select key that adds the mapped index and never removes one
toggle_selection_adding_only ==
    IF search_mode
    THEN IF current_index < Len(filtered_files)
         THEN [Self EXCEPT !.selected_files = selected_files \cup {filtered_files[current_index + 1]}]
         ELSE Self
    ELSE [Self EXCEPT !.selected_files = selected_files \cup {current_index}]

\* toggle_selection with the cursor taken for a catalog index in Search mode too
toggle_selection_unmapped ==
    IF current_index \in selected_files
    THEN [Self EXCEPT !.selected_files = selected_files \ {current_index}]
    ELSE [Self EXCEPT !.selected_files = selected_files \cup {current_index}]

\* key == ' ': the fields after the select key
toggle_selection ==
    IF search_mode
    THEN IF current_index < Len(filtered_files)
         THEN LET real_idx == filtered_files[current_index + 1]
              IN  IF real_idx \in selected_files
                  THEN [Self EXCEPT !.selected_files = selected_files \ {real_idx}]
                  ELSE [Self EXCEPT !.selected_files = selected_files \cup {real_idx}]
         ELSE Self
    ELSE IF current_index \in selected_files
         THEN [Self EXCEPT !.selected_files = selected_files \ {current_index}]
         ELSE [Self EXCEPT !.selected_files = selected_files \cup {current_index}]

\* The up arrow that leaves the page where it was
cursor_up_keeping_page ==
    IF current_index > 0
    THEN [Self EXCEPT !.current_index = current_index - 1]
    ELSE Self

\* key == '\x1b[A': the fields after the up arrow
cursor_up ==
    IF current_index > 0
    THEN [Self EXCEPT
            !.current_index = current_index - 1,
            !.current_page = IF current_index - 1 < current_page * page_size
                             THEN Max(0, current_page - 1)
                             ELSE current_page]
    ELSE Self

\* The down arrow that wraps from the last item to the first
cursor_down_wrapping ==
    LET max_index == IF search_mode THEN Len(filtered_files) - 1
                     ELSE Len(music_files) - 1
    IN  IF current_index < max_index
        THEN [Self EXCEPT
                !.current_index = current_index + 1,
                !.current_page = IF current_index + 1 >= (current_page + 1) * page_size
                                 THEN Min(handler_total_pages - 1, current_page + 1)
                                 ELSE current_page]
        ELSE [Self EXCEPT !.current_index = 0, !.current_page = 0]

\* key == '\x1b[B': the fields after the down arrow
cursor_down ==
    LET max_index == IF search_mode THEN Len(filtered_files) - 1
                     ELSE Len(music_files) - 1
    IN  IF current_index < max_index
        THEN [Self EXCEPT
                !.current_index = current_index + 1,
                !.current_page = IF current_index + 1 >= (current_page + 1) * page_size
                                 THEN Min(handler_total_pages - 1, current_page + 1)
                                 ELSE current_page]
        ELSE Self

\* Enter that stops at the last page instead of wrapping
advance_page_clamped ==
    LET total_pages == handler_total_pages
    IN  [Self EXCEPT
            !.current_page = Min(total_pages - 1, current_page + 1),
            !.current_index = Min(total_pages - 1, current_page + 1) * page_size]

\* key == '\r' or '\n': the fields after Enter
advance_page ==
    LET total_pages == handler_total_pages
    IN  [Self EXCEPT
            !.current_page = (current_page + 1) % total_pages,
            !.current_index = ((current_page + 1) % total_pages) * page_size]

\* key == '\x1b[5~': the fields after Page Up
page_up ==
    IF current_page > 0
    THEN [Self EXCEPT !.current_page = current_page - 1,
                             !.current_index = (current_page - 1) * page_size]
    ELSE Self

\* key == '\x1b[6~': the fields after Page Down
page_down ==
    IF current_page < handler_total_pages - 1
    THEN [Self EXCEPT !.current_page = current_page + 1,
                             !.current_index = (current_page + 1) * page_size]
    ELSE Self

\* key == '\x1b[D': the fields after the left arrow
page_left ==
    IF current_page > 0
    THEN [Self EXCEPT !.current_page = current_page - 1,
                             !.current_index = (current_page - 1) * page_size]
    ELSE Self

\* key == '\x1b[C': the fields after the right arrow
page_right ==
    IF current_page < handler_total_pages - 1
    THEN [Self EXCEPT !.current_page = current_page + 1,
                             !.current_index = (current_page + 1) * page_size]
    ELSE Self

\* The 'a' key that opens the playlist sub-flow in either mode
toggle_append_in_any_mode == select_existing_playlist

\* key in ('a', 'A'): the playlist sub-flow, in Normal mode only
toggle_append ==
    IF ~search_mode
    THEN select_existing_playlist
    ELSE UNCHANGED playlist /\ report' = NoReport

\* A handler that assigns fields of the selection and the view only
Handled(name, v) ==
    /\ event' = name
    /\ SetSelf(v)
    /\ report' = NoReport
    /\ UNCHANGED <<playlist, fs, pc>>

\* One iteration of handle_input's loop for the key getch returned
dispatch(key) ==
    IF key \in {<<"q">>, <<"Q">>}
    THEN /\ event' = "quit"
         /\ pc' = "exit"
         /\ report' = [NoReport EXCEPT !.outcome = "Quit"]
         /\ UNCHANGED <<selected_files, view, playlist, fs>>
    ELSE IF key \in {<<"s">>, <<"S">>}
    THEN /\ event' = "save"
         /\ save_playlist
         /\ pc' = "exit"
         /\ UNCHANGED <<selected_files, view, playlist>>
    ELSE IF key \in {<<"a">>, <<"A">>}
    THEN /\ event' = "toggle-append"
         /\ toggle_append
         /\ UNCHANGED <<selected_files, view, fs, pc>>
    ELSE IF key = <<"/">>
    THEN \E line \in Keywords :
            /\ event' = "start-search"
            /\ SetSelf(search_input(line))
            /\ report' = search_input_report(line)
            /\ UNCHANGED <<playlist, fs, pc>>
    ELSE IF Len(key) = 1 /\ key[1] = ESC
    THEN Handled("escape", IF search_mode THEN clear_search ELSE Self)
    ELSE IF key = <<" ">> THEN Handled("select", toggle_selection)
    ELSE IF key = <<ESC, "[", "A">> THEN Handled("cursor-up", cursor_up)
    ELSE IF key = <<ESC, "[", "B">> THEN Handled("cursor-down", cursor_down)
    ELSE IF key \in {<<CR>>, <<LF>>} THEN Handled("advance", advance_page)
    ELSE IF key = <<ESC, "[", "5", "~">> THEN Handled("page-up", page_up)
    ELSE IF key = <<ESC, "[", "6", "~">> THEN Handled("page-down", page_down)
    ELSE IF key = <<ESC, "[", "D">> THEN Handled("prev", page_left)
    ELSE IF key = <<ESC, "[", "C">> THEN Handled("next", page_right)
    ELSE Handled("none", Self)

\* The catalog index the select key acts on: the cursor's position mapped
\* through the active sequence
MappedIndex ==
    IF current_index < Len(get_current_display_files)
    THEN {get_current_display_files[current_index + 1]}
    ELSE {}

\* The key the next getch returns at a stream
NextKey(in) == getch(in.stream).key

\* handle_input: display_page, getch, and the handler of the key
handle_input ==
    /\ pc = "loop"
    /\ \E in \in (IF eof THEN {[stream |-> stdin, hup |-> FALSE, pressed |-> <<>>]}
                 ELSE Streams(stdin, <<>>)) :
          /\ stdin' = getch(in.stream).rest
          /\ eof' = (eof \/ in.hup)
          /\ dispatch(NextKey(in))
          /\ toggled' = IF NextKey(in) = <<" ">>
                        THEN (toggled \ MappedIndex) \cup (MappedIndex \ toggled)
                        ELSE toggled
          /\ pressed' = in.pressed
    /\ before' = [search_mode |-> search_mode, current_index |-> current_index,
                  current_page |-> current_page]
    /\ UNCHANGED <<dir_exists, disk, fs0, music_files, page_size, screen_initialized>>

\* run that starts handle_input whatever the scan returned
run_ignoring_scan ==
    /\ pc = "start"
    /\ music_files' = scan_music_files
    /\ pc' = "loop" /\ screen_initialized' = TRUE /\ report' = report
    /\ UNCHANGED <<env, selected_files, page_size, view, playlist, event, toggled,
                   pressed, before>>

\* run: the scan, and the first frame of handle_input when it found music
run ==
    /\ pc = "start"
    /\ music_files' = scan_music_files
    /\ IF dir_exists /\ Len(scan_music_files) > 0
       THEN pc' = "loop" /\ screen_initialized' = TRUE /\ report' = report
       ELSE /\ pc' = "exit" /\ screen_initialized' = FALSE
            /\ report' = [NoReport EXCEPT !.outcome = "ScanError"]
    /\ UNCHANGED <<env, selected_files, page_size, view, playlist, event, toggled,
                   pressed, before>>

Next == run \/ handle_input

Spec == Init /\ [][Next]_vars

\* ------------------------------------------------------------------ claims

\* The entities decoded in one pass over the path
RECURSIVE Decoded(_)
Decoded(path) ==
    IF path = <<>> THEN <<>>
    ELSE IF StartsWith(path, S_nbsp) THEN <<" ">> \o Decoded(From(path, Len(S_nbsp) + 1))
    ELSE IF StartsWith(path, S_amp) THEN <<"&">> \o Decoded(From(path, Len(S_amp) + 1))
    ELSE <<path[1]>> \o Decoded(Tail(path))

\* The lines of a text, the last one with or without its newline
TextLines(content) ==
    IF content = <<>> THEN <<>>
    ELSE IF content[Len(content)] = LF THEN Split(SubSeq(content, 1, Len(content) - 1), LF)
    ELSE Split(content, LF)

\* The smallest k with k * d >= n
CeilDiv(n, d) == CHOOSE k \in 0..n : k * d >= n /\ (k = 0 \/ (k - 1) * d < n)

\* The active sequence
Active == get_current_display_files

\* The selected indices below i
Below(i) == {j \in selected_files : j < i}

\* The selected indices whose track is not in the Membership Index
Fresh == {i \in selected_files : AsPosix(music_files[i + 1]) \notin existing_playlist}

\* The line typed at the search prompt matches no track's display name
MatchesNothing(line) ==
    /\ Strip(line) # <<>>
    /\ \A i \in 1..Len(music_files) :
          ~Contains(Lower(PathName(music_files[i])), Lower(Strip(line)))

\* C1: a catalog index is in the selection set exactly when the select key was
\* applied to it an odd number of times, whatever searches and page changes
\* came in between.
C1_SelectionIsToggleParity == selected_files = toggled

C1_Witness ==
    /\ pc = "loop" /\ event = "select" /\ search_mode /\ current_index > 0
    /\ \E i \in toggled : \A k \in 1..Len(filtered_files) : filtered_files[k] # i
    /\ \E i \in toggled : \E k \in 1..Len(filtered_files) : filtered_files[k] = i

\* C2: only the select key changes the selection set; the search prompt,
\* escape, cursor and page keys, Enter, save, quit and the append sub-flow
\* leave it as it was.
C2_OnlySelectChangesSelection ==
    [][event' # "select" => selected_files' = selected_files]_vars

C2_Witness ==
    /\ pc = "loop" /\ event = "start-search" /\ search_mode
    /\ \E i \in selected_files : \A k \in 1..Len(filtered_files) : filtered_files[k] # i

\* C3: the cursor is always within [0, max(0, |active sequence| - 1)].
C3_CursorInRange ==
    /\ 0 <= current_index
    /\ current_index <= Max(0, Len(Active) - 1)

C3_Witness ==
    /\ pc = "loop" /\ search_mode
    /\ Len(filtered_files) < Len(music_files)
    /\ current_index > 0 /\ current_index = Len(filtered_files) - 1

\* C4 (as claimed): after a save that fails or does nothing, the paging loop
\* goes on.
C4_FailedSaveResumesLoop ==
    (event = "save"
       /\ report.outcome \in {"WriteError", "NoNewTracks", "EmptySelection", "Declined"})
    => pc = "loop"

\* C5: a successful Create-mode export leaves a file of the line #EXTM3U and
\* then one line per selected index, ascending, each the track's path with
\* the entities &nbsp; and &amp; decoded.
C5_CreateExport ==
    report.outcome = "Created" =>
        LET lines == TextLines(fs[report.file])
        IN  /\ fs[report.file][Len(fs[report.file])] = LF
            /\ Len(lines) = 1 + Cardinality(selected_files)
            /\ lines[1] = S_header
            /\ \A i \in selected_files :
                  lines[2 + Cardinality(Below(i))] = Decoded(music_files[i + 1])
            /\ report.added = Cardinality(selected_files)

C5_Witness ==
    /\ report.outcome = "Created"
    /\ Cardinality(selected_files) >= 2
    /\ \E i \in selected_files : Contains(music_files[i + 1], S_amp)
    /\ \E i \in selected_files : Contains(music_files[i + 1], S_nbsp)

\* C6 (as claimed): a confirmed append leaves every line the playlist file
\* had as a prefix and adds, in ascending index order, one line for each
\* selected track that is not in the Membership Index; it reports that many
\* added and the other selected tracks as skipped.
C6_AppendKeepsLinesAndAddsNew ==
    report.outcome = "Appended" =>
        LET old == TextLines(fs0[report.file])
            new == TextLines(fs[report.file])
        IN  /\ Len(new) = Len(old) + Cardinality(Fresh)
            /\ SubSeq(new, 1, Len(old)) = old
            /\ \A i \in Fresh :
                  new[Len(old) + 1 + Cardinality(Below(i) \cap Fresh)]
                    = Decoded(music_files[i + 1])
            /\ report.added = Cardinality(Fresh)
            /\ report.skipped = Cardinality(selected_files \ Fresh)
            /\ report.added + report.skipped = Cardinality(selected_files)

\* C7 (as claimed): no line an append adds to the playlist file equals, in
\* normalized form, a path line the file held when it was loaded.
C7_AppendWritesNoLoadedPath ==
    report.outcome = "Appended" =>
        LET old == TextLines(fs0[report.file])
            new == TextLines(fs[report.file])
        IN  \A k \in (Len(old) + 1)..Len(new) :
               AsPosix(new[k]) \notin LoadedPaths(old)

\* C8: a keyword that matches no track's display name leaves the session in
\* Normal mode with the filter cleared, from either mode; Search mode is
\* never shown with an empty filter result.
C8_NoMatchLeavesNormal ==
    /\ (event = "start-search" /\ MatchesNothing(report.line))
         => (~search_mode /\ search_keyword = <<>> /\ filtered_files = <<>>)
    /\ search_mode => filtered_files # <<>>

C8_Witness ==
    /\ pc = "loop" /\ event = "start-search" /\ report.from_search
    /\ MatchesNothing(report.line) /\ ~search_mode

\* C9 (as claimed): an empty or whitespace-only keyword leaves the filter
\* inactive and the session in Normal mode, from either mode.
C9_EmptyKeywordClearsSearch ==
    (event = "start-search" /\ report.line # None /\ Strip(report.line) = <<>>)
    => (~search_mode /\ search_keyword = <<>> /\ filtered_files = <<>>)

Clamped(page) == Max(0, Min(CeilDiv(Len(Active), page_size) - 1, page))

\* C11 (as claimed): after the left arrow, the right arrow, Page Up or Page
\* Down, in either mode, the page is the page before minus or plus one,
\* clamped to [0, totalPages - 1], and the cursor is on the first item of
\* that page.
C11_PageKeysJumpToPageStart ==
    /\ pressed \in {<<"left">>, <<"pgup">>} =>
          /\ current_page = Clamped(before.current_page - 1)
          /\ current_index = current_page * page_size
    /\ pressed \in {<<"right">>, <<"pgdn">>} =>
          /\ current_page = Clamped(before.current_page + 1)
          /\ current_index = current_page * page_size

\* C12: Enter sets the page to (page + 1) mod totalPages, wrapping from the
\* last page to page 0, and the cursor to the first item of the new page;
\* with a single page, Enter leaves the page at 0 and moves the cursor to 0.
C12_EnterAdvancesAndWraps ==
    event = "advance" =>
        LET total == CeilDiv(Len(Active), page_size)
        IN  /\ current_page = (before.current_page + 1) % total
            /\ current_index = current_page * page_size
            /\ before.current_page = total - 1 => current_page = 0
            /\ total = 1 => (current_page = 0 /\ current_index = 0)

C12_Witness ==
    /\ pc = "loop" /\ event = "advance" /\ pressed = <<"enter">>
    /\ before.current_page = CeilDiv(Len(Active), page_size) - 1
    /\ before.current_page > 0 /\ current_page = 0 /\ current_index = 0

\* C13: the up and the down arrow move the cursor by exactly one position
\* within the active sequence and never wrap: the up arrow at position 0 and
\* the down arrow at position |active sequence| - 1 leave the cursor and the
\* page where they were.
C13_CursorKeysMoveByOneNoWrap ==
    /\ event = "cursor-up" =>
          IF before.current_index > 0
          THEN current_index = before.current_index - 1
          ELSE current_index = before.current_index /\ current_page = before.current_page
    /\ event = "cursor-down" =>
          IF before.current_index < Len(Active) - 1
          THEN current_index = before.current_index + 1
          ELSE current_index = before.current_index /\ current_page = before.current_page

C13_Witness ==
    /\ pc = "loop" /\ event = "cursor-down" /\ pressed = <<"down">>
    /\ Len(Active) >= 2 /\ before.current_index = Len(Active) - 1
    /\ current_index = Len(Active) - 1 /\ current_page > 0

\* C14: the escape event changes no state in Normal mode; in Search mode it
\* clears the filter (the mode becomes Normal, the keyword and the filter
\* result empty) and sets cursor and page to 0, and leaves the selection and
\* the Membership Index as they were.
C14_EscapeClearsSearchOnly ==
    [][event' = "escape" =>
         IF search_mode
         THEN /\ ~search_mode' /\ search_keyword' = <<>> /\ filtered_files' = <<>>
              /\ current_index' = 0 /\ current_page' = 0
              /\ UNCHANGED <<selected_files, playlist, fs, pc>>
         ELSE UNCHANGED <<selected_files, view, playlist, fs, pc, music_files, page_size>>]_vars

C14_Witness ==
    /\ pc = "loop" /\ event = "escape" /\ before.search_mode /\ before.current_index > 0
    /\ ~search_mode /\ current_index = 0
    /\ selected_files # {} /\ append_mode /\ existing_playlist # {}

\* The paths a membership query may be asked about: the catalog's tracks and
\* the paths of the playlist files
QueryPaths ==
    {music_files[i] : i \in 1..Len(music_files)}
      \cup UNION {LoadedPaths(FileLines(fs0[n])) : n \in DOMAIN fs0}

\* C15 (as claimed): after a playlist load that fails (the file is missing or
\* cannot be read) the session is in non-append mode and a membership query
\* answers false for every path, also when an earlier load had succeeded.
C15_FailedLoadLeavesNonAppend ==
    report.outcome = "LoadFailed" =>
        /\ ~append_mode
        /\ \A path \in QueryPaths : ~is_song_in_playlist(path)

\* The key event each arrow and page key stands for
HandlerOf(k) ==
    CASE k = "up" -> "cursor-up"
      [] k = "down" -> "cursor-down"
      [] k = "left" -> "prev"
      [] k = "right" -> "next"
      [] k = "pgup" -> "page-up"
      [] k = "pgdn" -> "page-down"

\* C16 (as claimed): each arrow key and each of Page Up and Page Down is
\* delivered as one key event that reaches its handler; the one read takes
\* all bytes of the sequence, so none is left to be delivered as, or with, a
\* later event.
C16_SequencesAreAtomic ==
    \A k \in {"up", "down", "left", "right", "pgup", "pgdn"} :
       pressed = <<k>> => (event = HandlerOf(k) /\ stdin = <<>>)

\* The bytes the terminal sends for a sequence of keys
RECURSIVE BytesOf(_)
BytesOf(keys) == IF keys = <<>> THEN <<>> ELSE Bytes(keys[1]) \o BytesOf(Tail(keys))

\* C17 (as claimed): an ESC byte that starts no sequence is delivered as a key
\* event of its own, the escape event, and the bytes of the keys pressed
\* after it stay unread for the events that follow; in Search mode the event
\* ends in Normal mode.
C17_BareEscapeIsItsOwnEvent ==
    (pressed # <<>> /\ pressed[1] = "esc") =>
        /\ event = "escape"
        /\ stdin = BytesOf(Tail(pressed))
        /\ before.search_mode => ~search_mode

\* The files below music_dir with a supported extension
Supported == {g \in disk : Lower(PathSuffix(g)) \in music_extensions}

\* C18: when music_dir is missing or holds no file with a supported
\* extension, the scan reports failure and the interactive loop is never
\* entered: no key is read and no frame is drawn; the loop only runs with a
\* catalog that is not empty.
C18_FailedScanNeverEntersLoop ==
    /\ (pc # "start" /\ (~dir_exists \/ Supported = {})) =>
          /\ pc = "exit" /\ report.outcome = "ScanError"
          /\ event = "none" /\ pressed = <<>> /\ stdin = <<>> /\ ~eof
          /\ ~screen_initialized
    /\ pc = "loop" => (dir_exists /\ Supported # {} /\ Len(music_files) > 0)
    /\ (pc # "start" /\ report.outcome # "ScanError") => Len(music_files) > 0

C18_Witness ==
    /\ pc = "exit" /\ report.outcome = "ScanError"
    /\ dir_exists /\ disk # {} /\ Supported = {} /\ music_files = <<>>

\* C19: the toggle-append key pressed in Search mode is ignored: mode,
\* filter, cursor, page, selection, append flag, target playlist and
\* Membership Index stay as they were and no playlist sub-flow is opened.
C19_AppendKeyIgnoredInSearch ==
    [][(event' = "toggle-append" /\ search_mode) =>
          /\ UNCHANGED <<view, selected_files, playlist, fs, pc>>
          /\ report' = NoReport]_vars

C19_Witness ==
    /\ pc = "loop" /\ event = "toggle-append" /\ pressed = <<"a">>
    /\ before.search_mode /\ search_mode /\ report = NoReport
    /\ get_available_playlists # <<>> /\ ~append_mode

\* C20: in every state of the interactive loop the cursor lies on the current
\* page, page * page_size <= cursor < (page + 1) * page_size, that is, page is
\* cursor div page_size, and page < totalPages; so the one-step page
\* adjustment of the up and down arrows gives the page that recomputing
\* cursor div page_size gives.
C20_CursorOnCurrentPage ==
    pc = "loop" =>
        /\ current_page * page_size <= current_index
        /\ current_index < (current_page + 1) * page_size
        /\ current_page = current_index \div page_size
        /\ current_page < CeilDiv(Len(Active), page_size)
        /\ event \in {"cursor-up", "cursor-down"} =>
              current_page = Clamped(current_index \div page_size)

C20_Witness ==
    /\ pc = "loop" /\ event = "cursor-up" /\ search_mode
    /\ before.current_index = before.current_page * page_size
    /\ current_page = before.current_page - 1
    /\ current_index = before.current_index - 1

\* The indices whose membership differs between two selections
Changed(old, new) == (old \ new) \cup (new \ old)

\* C21: each select keypress changes the membership of exactly one catalog
\* index and of no other: in Normal mode the index equal to the cursor, in
\* Search mode the index at position cursor of the filter result; so the
\* selection is always a subset of [0, |catalog|).
C21_SelectTogglesOneMappedIndex ==
    /\ [][event' = "select" =>
            Changed(selected_files, selected_files')
              = {IF search_mode THEN filtered_files[current_index + 1] ELSE current_index}]_vars
    /\ [](selected_files \subseteq 0..(Len(music_files) - 1))

C21_Witness ==
    /\ pc = "loop" /\ event = "select" /\ pressed = <<"space">> /\ search_mode
    /\ filtered_files[current_index + 1] # current_index
    /\ filtered_files[current_index + 1] \notin selected_files
    /\ filtered_files[current_index + 1] \notin toggled
    /\ selected_files # {}

\* The catalog indices whose display name contains the trimmed line, letter
\* case aside
MatchSet(line) ==
    {i \in 0..(Len(music_files) - 1) :
        Contains(Lower(PathName(music_files[i + 1])), Lower(Strip(line)))}

\* C22: after the search prompt is answered with a keyword that matches at
\* least one track, the session is in Search mode, the filter result is the
\* strictly ascending sequence of all catalog indices whose display name
\* contains the trimmed keyword, letter case aside, and cursor and page are
\* 0; also when the prompt replaces an active filter.
C22_SearchResultIsAllMatchesAscending ==
    (event = "start-search" /\ report.line # None /\ Strip(report.line) # <<>>
       /\ MatchSet(report.line) # {}) =>
        /\ search_mode
        /\ \A j, k \in 1..Len(filtered_files) : j < k => filtered_files[j] < filtered_files[k]
        /\ {filtered_files[k] : k \in 1..Len(filtered_files)} = MatchSet(report.line)
        /\ current_index = 0 /\ current_page = 0

C22_Witness ==
    /\ pc = "loop" /\ event = "start-search" /\ report.from_search
    /\ report.line = <<"B">> /\ before.current_index > 0
    /\ Len(filtered_files) >= 2 /\ Len(filtered_files) < Len(music_files)
    /\ current_index = 0

\* Something is selected and every selected track is in the Membership Index
AllSelectedInPlaylist ==
    /\ selected_files # {}
    /\ \A i \in selected_files : AsPosix(music_files[i + 1]) \in existing_playlist

\* C23: when every selected track is already in the Membership Index, a save
\* in append mode ends with the NoNewTracks outcome and neither opens nor
\* writes the playlist file: the files are as they were and no confirmation
\* is asked for.
C23_NoNewTracksLeavesFile ==
    [][(event' = "save" /\ append_mode /\ AllSelectedInPlaylist) =>
          /\ report'.outcome = "NoNewTracks"
          /\ fs' = fs
          /\ UNCHANGED <<selected_files, playlist>>]_vars

C23_Witness ==
    /\ event = "save" /\ pressed = <<"s">> /\ report.outcome = "NoNewTracks"
    /\ append_mode /\ AllSelectedInPlaylist
    /\ target_playlist_file \in DOMAIN fs /\ fs = fs0

\* C24: in every state of the interactive loop, Search mode implies a filter
\* result that is not empty, and the catalog is not empty; so the page count
\* the key handlers compute without a minimum of 1 is never 0 and Enter's
\* modulo never divides by zero.
C24_SearchModeHasMatches ==
    pc = "loop" =>
        /\ search_mode => Len(filtered_files) > 0
        /\ Len(music_files) > 0
        /\ Len(Active) > 0
        /\ handler_total_pages > 0

C24_Witness ==
    /\ pc = "loop" /\ event = "advance" /\ before.search_mode /\ search_mode
    /\ Len(filtered_files) = 1 /\ Len(music_files) > 1 /\ page_size > 1
    /\ handler_total_pages = 1

\* The rows of the frame that carry the cursor marker
MarkedRows == {r \in 1..Len(display_rows) : display_rows[r].cursor}

\* C25: every frame of the interactive loop has exactly one item row with
\* the cursor marker, the row of the track at position cursor of the active
\* sequence, in Normal and in Search mode; the row's selection marker shows
\* the membership of the catalog index a select keypress would toggle.
C25_OneCursorRowAtMappedTrack ==
    pc = "loop" =>
        /\ Cardinality(MarkedRows) = 1
        /\ \A r \in MarkedRows :
              LET row == display_rows[r]
              IN  /\ row.global_idx = Active[current_index + 1]
                  /\ row.file_name = PathName(music_files[Active[current_index + 1] + 1])
                  /\ MappedIndex = {row.global_idx}
                  /\ row.checkbox \in {"check", "ring"} <=> row.global_idx \in selected_files
                  /\ toggle_selection.selected_files
                       = Changed(selected_files, {row.global_idx})

C25_Witness ==
    /\ pc = "loop" /\ search_mode /\ append_mode
    /\ current_page > 0 /\ current_index > 0
    /\ Active[current_index + 1] # current_index
    /\ Active[current_index + 1] \in selected_files
    /\ \E r \in MarkedRows : display_rows[r].checkbox = "check"

====
